---- MODULE Spec2Model ----
(***************************************************************************)
(* Model of the keep-alive tool (main.go): the main goroutine's startup    *)
(* and select loop, the strategy invocation _simulateActivity, the         *)
(* keyboard reader goroutine _monitorKeyboard, and the runtime objects     *)
(* they share (signal channel, keyboard channel, ticker channel, stdin).   *)
(***************************************************************************)
EXTENDS Integers, Sequences, FiniteSets, TLC

\* ---------------------------------------------------------------- bounds
MaxTicks == 3          \* tick intervals that elapse in a run
MaxSignals == 1        \* OS signals sent to the process in a run

\* ------------------------------------------------------- input alphabets
\* runtime.GOOS values: the two supported ones and two others
Goos == {"darwin", "windows", "linux", "freebsd"}

\* Console lines (without their newline), as sequences of characters
LineQ == <<"q">>
LineQuit == <<"q", "u", "i", "t">>
LineExit == <<"e", "x", "i", "t">>
Lines ==
  { LineQ, LineQuit, LineExit,
    <<>>,
    <<"Q">>,
    <<"Q", "u", "i", "t", " ">>,
    <<"e", "x", "i", "t", "n", "o", "w">>,
    <<" ", "q", "u", "i", "t", " ">>,
    <<"q", "u", "i", "t", " ", "n", "o", "w">>,
    <<"x", " ", "q", "q">> }

\* What stdin may still hold, unterminated, when it is closed
FinalLines == { <<>>, <<"q">> }

NoLine == <<"<none>">>

VARIABLES
  goos,          \* runtime.GOOS, fixed for the process lifetime
  utilAvail,     \* whether cliclick is on the search path right now
  pc,            \* position of the main goroutine
  exitStatus,    \* "none" while the process runs, else its exit status
  notified,      \* signal.Notify has registered sigChan
  tickerOn,      \* time.NewTicker has been called
  sigChan,       \* number of values buffered in sigChan (capacity 1)
  keyboardChan,  \* number of values buffered in keyboardChan (capacity 1)
  tickerC,       \* number of ticks buffered in ticker.C (capacity 1)
  reader,        \* position of the _monitorKeyboard goroutine
  stdin,         \* unread console bytes
  stdinClosed,   \* stdin has reached end of input
  curLine,       \* the line, as typed, that stdin holds a part of
  lastRead,      \* error value of the reader's latest Scanln
  quitLine,      \* the typed line on which the reader signalled quit
  kbWrites,      \* sends on keyboardChan so far
  kbReads,       \* receives from keyboardChan so far
  sigsSent,      \* signals sent to the process so far
  elapsed,       \* tick intervals elapsed since the ticker was created
  dropped,       \* ticks the ticker discarded because ticker.C was full
  started,       \* strategy invocations started
  inFlight,      \* external helper processes currently running
  cmd,           \* the command chosen by the latest invocation
  prevCmd,       \* the command chosen by the invocation before it
  successes,     \* success reports printed
  failures,      \* failure reports (warning lines) printed
  hints,         \* troubleshooting lines printed
  observed,      \* which termination case the loop has taken
  raced          \* the latest select had a tick and a termination both ready

vars == << goos, utilAvail, pc, exitStatus, notified, tickerOn, sigChan,
           keyboardChan, tickerC, reader, stdin, stdinClosed, curLine, lastRead,
           quitLine, kbWrites, kbReads, sigsSent, elapsed, dropped, started,
           inFlight, cmd, prevCmd, successes, failures, hints, observed,
           raced >>

mainVars == << pc, exitStatus, notified, tickerOn, started, inFlight, cmd,
               prevCmd, successes, failures, hints, observed, raced >>
readerVars == << reader, stdin, curLine, lastRead, quitLine, kbWrites >>
envVars == << goos, utilAvail, stdinClosed, sigsSent, elapsed, dropped >>

Supported == {"darwin", "windows"}

Running == exitStatus = "none"

\* ----------------------------------------------------------- fmt.Scanln
IsSpace(c) == c = " "

RECURSIVE SkipSpace(_)
SkipSpace(s) ==
  IF s # <<>> /\ IsSpace(Head(s)) THEN SkipSpace(Tail(s)) ELSE s

RECURSIVE TokenLen(_)
TokenLen(s) ==
  IF s = <<>> \/ IsSpace(Head(s)) \/ Head(s) = "\n"
  THEN 0
  ELSE 1 + TokenLen(Tail(s))

\* One call fmt.Scanln(&input) on the unread bytes buf of a stdin whose
\* remaining lines are complete or that is closed: the error it returns, the
\* value stored in input, the bytes left unread and whether the call reached
\* the end of a typed line.
Scanln(buf) ==
  LET s1 == SkipSpace(buf) IN
  IF s1 = <<>>
  THEN [err |-> "EOF", input |-> <<>>, rest |-> <<>>, eol |-> buf # <<>>]
  ELSE IF Head(s1) = "\n"
  THEN [err |-> "unexpected newline", input |-> <<>>, rest |-> Tail(s1),
        eol |-> TRUE]
  ELSE
    LET n == TokenLen(s1)
        tok == SubSeq(s1, 1, n)
        s2 == SkipSpace(SubSeq(s1, n + 1, Len(s1)))
    IN IF s2 = <<>>
       THEN [err |-> "nil", input |-> tok, rest |-> <<>>, eol |-> TRUE]
       ELSE IF Head(s2) = "\n"
       THEN [err |-> "nil", input |-> tok, rest |-> Tail(s2), eol |-> TRUE]
       ELSE [err |-> "expected newline", input |-> tok, rest |-> Tail(s2),
             eol |-> Tail(s2) = <<>>]

IsQuitCommand(input) ==
  input = LineQ \/ input = LineQuit \/ input = LineExit

\* ------------------------------------------------------------------ Init
Init ==
  /\ goos \in Goos
  /\ utilAvail \in BOOLEAN
  /\ pc = "start"
  /\ exitStatus = "none"
  /\ notified = FALSE
  /\ tickerOn = FALSE
  /\ sigChan = 0
  /\ keyboardChan = 0
  /\ tickerC = 0
  /\ reader = "unborn"
  /\ stdin = <<>>
  /\ stdinClosed = FALSE
  /\ curLine = NoLine
  /\ lastRead = "none"
  /\ quitLine = NoLine
  /\ kbWrites = 0
  /\ kbReads = 0
  /\ sigsSent = 0
  /\ elapsed = 0
  /\ dropped = 0
  /\ started = 0
  /\ inFlight = 0
  /\ cmd = "none"
  /\ prevCmd = "none"
  /\ successes = 0
  /\ failures = 0
  /\ hints = 0
  /\ observed = "none"
  /\ raced = FALSE

\* ------------------------------------------------- main: startup (23-58)
\* PlatformCheck as it would be if the default branch printed the error
\* without calling os.Exit
PlatformCheckWarnOnly ==
  /\ Running
  /\ pc = "start"
  /\ pc' = "notify"
  /\ exitStatus' = exitStatus
  /\ UNCHANGED << notified, tickerOn, started, inFlight, cmd, prevCmd,
                  successes, failures, hints, observed, raced >>
  /\ UNCHANGED << sigChan, keyboardChan, tickerC, kbReads >>
  /\ UNCHANGED readerVars
  /\ UNCHANGED envVars

\* switch runtime.GOOS: a supported platform falls through, any other
\* prints the error and calls os.Exit(1)
PlatformCheck ==
  /\ Running
  /\ pc = "start"
  /\ IF goos \in Supported
     THEN /\ pc' = "notify"
          /\ exitStatus' = exitStatus
     ELSE /\ pc' = "exited"
          /\ exitStatus' = "1"
  /\ UNCHANGED << notified, tickerOn, started, inFlight, cmd, prevCmd,
                  successes, failures, hints, observed, raced >>
  /\ UNCHANGED << sigChan, keyboardChan, tickerC, kbReads >>
  /\ UNCHANGED readerVars
  /\ UNCHANGED envVars

\* sigChan := make(chan os.Signal, 1); signal.Notify(sigChan, ...)
NotifySignals ==
  /\ Running
  /\ pc = "notify"
  /\ notified' = TRUE
  /\ pc' = "spawn"
  /\ UNCHANGED << exitStatus, tickerOn, started, inFlight, cmd, prevCmd,
                  successes, failures, hints, observed, raced >>
  /\ UNCHANGED << sigChan, keyboardChan, tickerC, kbReads >>
  /\ UNCHANGED readerVars
  /\ UNCHANGED envVars

\* keyboardChan := make(chan struct{}, 1); go _monitorKeyboard(keyboardChan)
SpawnReader ==
  /\ Running
  /\ pc = "spawn"
  /\ reader' = "reading"
  /\ pc' = "ticker"
  /\ UNCHANGED << exitStatus, notified, tickerOn, started, inFlight, cmd, prevCmd,
                  successes, failures, hints, observed, raced >>
  /\ UNCHANGED << sigChan, keyboardChan, tickerC, kbReads >>
  /\ UNCHANGED << stdin, curLine, lastRead, quitLine, kbWrites >>
  /\ UNCHANGED envVars

\* Variant: the ticker delivers a first tick at creation instead of after
\* one full interval.
NewTickerImmediateTick ==
  /\ Running
  /\ pc = "ticker"
  /\ tickerOn' = TRUE
  /\ tickerC' = 1
  /\ pc' = "wait"
  /\ UNCHANGED << exitStatus, notified, started, inFlight, cmd, prevCmd,
                  successes, failures, hints, observed, raced >>
  /\ UNCHANGED << sigChan, keyboardChan, kbReads >>
  /\ UNCHANGED readerVars
  /\ UNCHANGED envVars

\* ticker := time.NewTicker(defaultInterval); defer ticker.Stop()
NewTicker ==
  /\ Running
  /\ pc = "ticker"
  /\ tickerOn' = TRUE
  /\ pc' = "wait"
  /\ UNCHANGED << exitStatus, notified, started, inFlight, cmd, prevCmd,
                  successes, failures, hints, observed, raced >>
  /\ UNCHANGED << sigChan, keyboardChan, tickerC, kbReads >>
  /\ UNCHANGED readerVars
  /\ UNCHANGED envVars

\* ---------------------------------------------- main: the loop (60-71)
TerminationPending == sigChan > 0 \/ keyboardChan > 0

\* SigCase as it would be if the signal case ran the strategy one last time
\* before returning
SigCaseLastNudge ==
  /\ Running
  /\ pc = "wait"
  /\ sigChan > 0
  /\ sigChan' = sigChan - 1
  /\ observed' = "signal"
  /\ raced' = (tickerC > 0)
  /\ pc' = "stopped"
  /\ exitStatus' = "0"
  /\ tickerOn' = FALSE
  /\ started' = started + 1
  /\ UNCHANGED << notified, inFlight, cmd, prevCmd, successes, failures, hints >>
  /\ UNCHANGED << keyboardChan, tickerC, kbReads >>
  /\ UNCHANGED readerVars
  /\ UNCHANGED envVars

\* SigCase as it would be if earlier failures were turned into the exit status
SigCaseFailStatus ==
  /\ Running
  /\ pc = "wait"
  /\ sigChan > 0
  /\ sigChan' = sigChan - 1
  /\ observed' = "signal"
  /\ raced' = (tickerC > 0)
  /\ pc' = "stopped"
  /\ exitStatus' = IF failures > 0 THEN "1" ELSE "0"
  /\ tickerOn' = FALSE
  /\ UNCHANGED << notified, started, inFlight, cmd, prevCmd, successes,
                  failures, hints >>
  /\ UNCHANGED << keyboardChan, tickerC, kbReads >>
  /\ UNCHANGED readerVars
  /\ UNCHANGED envVars

\* SigCase as it would be if the signal were also selected on while the
\* helper runs, abandoning the invocation
SigCasePreempt ==
  /\ Running
  /\ pc \in {"wait", "running"}
  /\ sigChan > 0
  /\ sigChan' = sigChan - 1
  /\ observed' = "signal"
  /\ raced' = (tickerC > 0)
  /\ pc' = "stopped"
  /\ exitStatus' = "0"
  /\ tickerOn' = FALSE
  /\ inFlight' = 0
  /\ UNCHANGED << notified, started, cmd, prevCmd, successes, failures,
                  hints >>
  /\ UNCHANGED << keyboardChan, tickerC, kbReads >>
  /\ UNCHANGED readerVars
  /\ UNCHANGED envVars

\* SigCase as it would be if the signal were received and dropped
\* (the case body neither prints nor returns)
SigCaseSwallow ==
  /\ Running
  /\ pc = "wait"
  /\ sigChan > 0
  /\ sigChan' = sigChan - 1
  /\ raced' = (tickerC > 0)
  /\ UNCHANGED << pc, exitStatus, tickerOn, observed >>
  /\ UNCHANGED << notified, started, inFlight, cmd, prevCmd, successes,
                  failures, hints >>
  /\ UNCHANGED << keyboardChan, tickerC, kbReads >>
  /\ UNCHANGED readerVars
  /\ UNCHANGED envVars

\* case <-sigChan: print, return (the deferred ticker.Stop runs, the
\* process exits with status 0)
SigCase ==
  /\ Running
  /\ pc = "wait"
  /\ sigChan > 0
  /\ sigChan' = sigChan - 1
  /\ observed' = "signal"
  /\ raced' = (tickerC > 0)
  /\ pc' = "stopped"
  /\ exitStatus' = "0"
  /\ tickerOn' = FALSE
  /\ UNCHANGED << notified, started, inFlight, cmd, prevCmd, successes,
                  failures, hints >>
  /\ UNCHANGED << keyboardChan, tickerC, kbReads >>
  /\ UNCHANGED readerVars
  /\ UNCHANGED envVars

\* KeyboardCase as it would be with `break` in place of `return`: only the
\* select is left and the loop waits again
KeyboardCaseBreak ==
  /\ Running
  /\ pc = "wait"
  /\ keyboardChan > 0
  /\ keyboardChan' = keyboardChan - 1
  /\ kbReads' = kbReads + 1
  /\ observed' = "keyboard"
  /\ raced' = (tickerC > 0)
  /\ pc' = "wait"
  /\ UNCHANGED << exitStatus, tickerOn >>
  /\ UNCHANGED << notified, started, inFlight, cmd, prevCmd, successes,
                  failures, hints >>
  /\ UNCHANGED << sigChan, tickerC >>
  /\ UNCHANGED readerVars
  /\ UNCHANGED envVars

\* case <-keyboardChan: print, return
KeyboardCase ==
  /\ Running
  /\ pc = "wait"
  /\ keyboardChan > 0
  /\ keyboardChan' = keyboardChan - 1
  /\ kbReads' = kbReads + 1
  /\ observed' = "keyboard"
  /\ raced' = (tickerC > 0)
  /\ pc' = "stopped"
  /\ exitStatus' = "0"
  /\ tickerOn' = FALSE
  /\ UNCHANGED << notified, started, inFlight, cmd, prevCmd, successes,
                  failures, hints >>
  /\ UNCHANGED << sigChan, tickerC >>
  /\ UNCHANGED readerVars
  /\ UNCHANGED envVars

\* HintLines as it would be if the troubleshooting line were printed on
\* every platform
HintLinesAlways(os) == 1

\* _simulateActivity, lines 129-136: the troubleshooting lines that follow
\* the warning line of a failure report
HintLines(os) == IF os = "darwin" THEN 1 ELSE 0

\* ChooseCmd as it would be if a missing cliclick were remembered: once the
\* fallback has been chosen it is chosen again
ChooseCmdSticky(os, avail) ==
  CASE os = "darwin" -> IF avail /\ cmd # "osascript"
                        THEN "cliclick"
                        ELSE "osascript"
    [] os = "windows" -> "powershell"
    [] OTHER -> "none"

\* ChooseCmd as it would be if the default branch fell through to the
\* shell command instead of returning
ChooseCmdDefaultShell(os, avail) ==
  CASE os = "darwin" -> IF avail THEN "cliclick" ELSE "osascript"
    [] OTHER -> "powershell"

\* _simulateActivity, lines 78-125: the command built for this platform
\* (exec.LookPath("cliclick") is evaluated at every call)
ChooseCmd(os, avail) ==
  CASE os = "darwin" -> IF avail THEN "cliclick" ELSE "osascript"
    [] os = "windows" -> "powershell"
    [] OTHER -> "none"

\* TickCase as it would be if the tick case called the strategy twice
TickCaseTwice ==
  /\ Running
  /\ pc = "wait"
  /\ tickerC > 0
  /\ started <= MaxTicks
  /\ tickerC' = tickerC - 1
  /\ started' = started + 2
  /\ raced' = TerminationPending
  /\ cmd' = ChooseCmd(goos, utilAvail)
  /\ prevCmd' = cmd
  /\ IF ChooseCmd(goos, utilAvail) = "none"
     THEN /\ pc' = "wait"
          /\ UNCHANGED << inFlight, failures, hints >>
     ELSE \E launched \in BOOLEAN :
            IF launched
            THEN /\ inFlight' = inFlight + 1
                 /\ pc' = "running"
                 /\ failures' = failures
                 /\ hints' = hints
            ELSE /\ inFlight' = inFlight
                 /\ pc' = "wait"
                 /\ failures' = failures + 1
                 /\ hints' = hints + HintLines(goos)
  /\ UNCHANGED << exitStatus, notified, tickerOn, successes, observed >>
  /\ UNCHANGED << sigChan, keyboardChan, kbReads >>
  /\ UNCHANGED readerVars
  /\ UNCHANGED envVars

\* TickCase as it would be with `go _simulateActivity()`: the loop waits
\* again while the helper is still running
TickCaseAsync ==
  /\ Running
  /\ pc = "wait"
  /\ tickerC > 0
  /\ started <= MaxTicks
  /\ tickerC' = tickerC - 1
  /\ started' = started + 1
  /\ raced' = TerminationPending
  /\ cmd' = ChooseCmd(goos, utilAvail)
  /\ prevCmd' = cmd
  /\ pc' = "wait"
  /\ IF ChooseCmd(goos, utilAvail) = "none"
     THEN UNCHANGED << inFlight, failures, hints >>
     ELSE \E launched \in BOOLEAN :
            IF launched
            THEN /\ inFlight' = inFlight + 1
                 /\ failures' = failures
                 /\ hints' = hints
            ELSE /\ inFlight' = inFlight
                 /\ failures' = failures + 1
                 /\ hints' = hints + HintLines(goos)
  /\ UNCHANGED << exitStatus, notified, tickerOn, successes, observed >>
  /\ UNCHANGED << sigChan, keyboardChan, kbReads >>
  /\ UNCHANGED readerVars
  /\ UNCHANGED envVars

\* TickCase as it would be if a helper that cannot be launched were
\* skipped without a report
TickCaseSilentLaunchFailure ==
  /\ Running
  /\ pc = "wait"
  /\ tickerC > 0
  /\ started <= MaxTicks
  /\ tickerC' = tickerC - 1
  /\ started' = started + 1
  /\ raced' = TerminationPending
  /\ cmd' = ChooseCmd(goos, utilAvail)
  /\ prevCmd' = cmd
  /\ IF ChooseCmd(goos, utilAvail) = "none"
     THEN /\ pc' = "wait"
          /\ UNCHANGED << inFlight, failures, hints >>
     ELSE \E launched \in BOOLEAN :
            IF launched
            THEN /\ inFlight' = inFlight + 1
                 /\ pc' = "running"
                 /\ UNCHANGED << failures, hints >>
            ELSE /\ inFlight' = inFlight
                 /\ pc' = "wait"
                 /\ UNCHANGED << failures, hints >>
  /\ UNCHANGED << exitStatus, notified, tickerOn, successes, observed >>
  /\ UNCHANGED << sigChan, keyboardChan, kbReads >>
  /\ UNCHANGED readerVars
  /\ UNCHANGED envVars

\* case <-ticker.C: _simulateActivity(), up to the point where cmd.Run
\* either fails to launch the helper (it returns an error at once, the
\* warning is printed and the loop waits again) or has launched it and
\* blocks until it exits
TickCase ==
  /\ Running
  /\ pc = "wait"
  /\ tickerC > 0
  /\ started <= MaxTicks
  /\ tickerC' = tickerC - 1
  /\ started' = started + 1
  /\ raced' = TerminationPending
  /\ cmd' = ChooseCmd(goos, utilAvail)
  /\ prevCmd' = cmd
  /\ IF ChooseCmd(goos, utilAvail) = "none"
     THEN /\ pc' = "wait"
          /\ UNCHANGED << inFlight, failures, hints >>
     ELSE \E launched \in BOOLEAN :
            IF launched
            THEN /\ inFlight' = inFlight + 1
                 /\ pc' = "running"
                 /\ failures' = failures
                 /\ hints' = hints
            ELSE /\ inFlight' = inFlight
                 /\ pc' = "wait"
                 /\ failures' = failures + 1
                 /\ hints' = hints + HintLines(goos)
  /\ UNCHANGED << exitStatus, notified, tickerOn, successes, observed >>
  /\ UNCHANGED << sigChan, keyboardChan, kbReads >>
  /\ UNCHANGED readerVars
  /\ UNCHANGED envVars

\* RunReturns as it would be if a failed run were fatal (log.Fatal)
RunReturnsFatal ==
  /\ Running
  /\ pc = "running"
  /\ inFlight' = inFlight - 1
  /\ \E err \in BOOLEAN :
       IF err
       THEN /\ failures' = failures + 1
            /\ hints' = hints + HintLines(goos)
            /\ successes' = successes
            /\ pc' = "exited"
            /\ exitStatus' = "1"
       ELSE /\ successes' = successes + 1
            /\ failures' = failures
            /\ hints' = hints
            /\ pc' = "wait"
            /\ exitStatus' = exitStatus
  /\ UNCHANGED << notified, tickerOn, started, cmd, prevCmd, observed,
                  raced >>
  /\ UNCHANGED << sigChan, keyboardChan, tickerC, kbReads >>
  /\ UNCHANGED readerVars
  /\ UNCHANGED envVars

\* RunReturns as it would be if a failed cliclick run were retried with the
\* fallback inside the same invocation
RunReturnsRetryFallback ==
  /\ Running
  /\ pc = "running"
  /\ \E err \in BOOLEAN :
       IF err /\ cmd = "cliclick"
       THEN /\ cmd' = "osascript"
            /\ pc' = "running"
            /\ UNCHANGED << inFlight, successes, failures, hints >>
       ELSE /\ cmd' = cmd
            /\ pc' = "wait"
            /\ inFlight' = inFlight - 1
            /\ IF err
               THEN /\ failures' = failures + 1
                    /\ hints' = hints + HintLines(goos)
                    /\ successes' = successes
               ELSE /\ successes' = successes + 1
                    /\ failures' = failures
                    /\ hints' = hints
  /\ UNCHANGED << exitStatus, notified, tickerOn, started, prevCmd,
                  observed, raced >>
  /\ UNCHANGED << sigChan, keyboardChan, tickerC, kbReads >>
  /\ UNCHANGED readerVars
  /\ UNCHANGED envVars

\* RunReturns as it would be if repeated failures escalated: from the second
\* failure on an extra troubleshooting line is printed
RunReturnsEscalate ==
  /\ Running
  /\ pc = "running"
  /\ inFlight' = inFlight - 1
  /\ pc' = "wait"
  /\ \E err \in BOOLEAN :
       IF err
       THEN /\ failures' = failures + 1
            /\ hints' = hints + HintLines(goos)
                          + (IF failures >= 1 THEN 1 ELSE 0)
            /\ successes' = successes
       ELSE /\ successes' = successes + 1
            /\ failures' = failures
            /\ hints' = hints
  /\ UNCHANGED << exitStatus, notified, tickerOn, started, cmd, prevCmd,
                  observed, raced >>
  /\ UNCHANGED << sigChan, keyboardChan, tickerC, kbReads >>
  /\ UNCHANGED readerVars
  /\ UNCHANGED envVars

\* cmd.Run returns after the helper exited: err # nil prints the warning,
\* err = nil prints the success line; _simulateActivity returns to the loop
RunReturns ==
  /\ Running
  /\ pc = "running"
  /\ inFlight' = inFlight - 1
  /\ pc' = "wait"
  /\ \E err \in BOOLEAN :
       IF err
       THEN /\ failures' = failures + 1
            /\ hints' = hints + HintLines(goos)
            /\ successes' = successes
       ELSE /\ successes' = successes + 1
            /\ failures' = failures
            /\ hints' = hints
  /\ UNCHANGED << exitStatus, notified, tickerOn, started, cmd, prevCmd,
                  observed, raced >>
  /\ UNCHANGED << sigChan, keyboardChan, tickerC, kbReads >>
  /\ UNCHANGED readerVars
  /\ UNCHANGED envVars

\* ------------------------------------------ _monitorKeyboard (143-158)
\* ReaderScan as it would be with `return` in place of `continue` on a
\* failed read
ReaderScanStopOnError ==
  /\ Running
  /\ reader = "reading"
  /\ stdin # <<>> \/ stdinClosed
  /\ LET r == Scanln(stdin) IN
       /\ stdin' = r.rest
       /\ curLine' = IF r.eol THEN NoLine ELSE curLine
       /\ lastRead' = r.err
       /\ IF r.err # "nil"
          THEN /\ reader' = "done"
               /\ quitLine' = quitLine
          ELSE IF IsQuitCommand(r.input)
          THEN /\ reader' = "sending"
               /\ quitLine' = curLine
          ELSE /\ reader' = "reading"
               /\ quitLine' = quitLine
  /\ UNCHANGED kbWrites
  /\ UNCHANGED mainVars
  /\ UNCHANGED << sigChan, keyboardChan, tickerC, kbReads >>
  /\ UNCHANGED envVars

\* One iteration of the reader's loop up to its channel send: Scanln, then
\* continue on an error or a non-matching input, or go on to send
ReaderScan ==
  /\ Running
  /\ reader = "reading"
  /\ stdin # <<>> \/ stdinClosed
  /\ LET r == Scanln(stdin) IN
       /\ stdin' = r.rest
       /\ curLine' = IF r.eol THEN NoLine ELSE curLine
       /\ lastRead' = r.err
       /\ IF r.err = "nil" /\ IsQuitCommand(r.input)
          THEN /\ reader' = "sending"
               /\ quitLine' = curLine
          ELSE /\ reader' = "reading"
               /\ quitLine' = quitLine
  /\ UNCHANGED kbWrites
  /\ UNCHANGED mainVars
  /\ UNCHANGED << sigChan, keyboardChan, tickerC, kbReads >>
  /\ UNCHANGED envVars

\* ReaderSend as it would be without the `return` after the send
ReaderSendAndContinue ==
  /\ Running
  /\ reader = "sending"
  /\ keyboardChan < 1
  /\ keyboardChan' = keyboardChan + 1
  /\ kbWrites' = kbWrites + 1
  /\ reader' = "reading"
  /\ UNCHANGED << stdin, curLine, lastRead, quitLine >>
  /\ UNCHANGED mainVars
  /\ UNCHANGED << sigChan, tickerC, kbReads >>
  /\ UNCHANGED envVars

\* ReaderSend as it would be on an unbuffered channel: the send completes
\* only while the loop is waiting in its select
ReaderSendUnbuffered ==
  /\ Running
  /\ reader = "sending"
  /\ pc = "wait"
  /\ keyboardChan < 1
  /\ keyboardChan' = keyboardChan + 1
  /\ kbWrites' = kbWrites + 1
  /\ reader' = "done"
  /\ UNCHANGED << stdin, curLine, lastRead, quitLine >>
  /\ UNCHANGED mainVars
  /\ UNCHANGED << sigChan, tickerC, kbReads >>
  /\ UNCHANGED envVars

\* keyboardChan <- struct{}{} (blocks while the buffer is full); return
ReaderSend ==
  /\ Running
  /\ reader = "sending"
  /\ keyboardChan < 1
  /\ keyboardChan' = keyboardChan + 1
  /\ kbWrites' = kbWrites + 1
  /\ reader' = "done"
  /\ UNCHANGED << stdin, curLine, lastRead, quitLine >>
  /\ UNCHANGED mainVars
  /\ UNCHANGED << sigChan, tickerC, kbReads >>
  /\ UNCHANGED envVars

\* ------------------------------------------------------- environment
\* The runtime delivers SIGINT or SIGTERM to the registered channel with a
\* non-blocking send: the signal is discarded when the buffer is full.
\* Signals (like console lines) keep arriving after the process has exited;
\* no action of the program is enabled then to handle them.
SignalArrives ==
  /\ notified
  /\ sigsSent < MaxSignals
  /\ sigsSent' = sigsSent + 1
  /\ sigChan' = IF sigChan < 1 THEN sigChan + 1 ELSE sigChan
  /\ UNCHANGED << goos, utilAvail, stdinClosed, elapsed, dropped >>
  /\ UNCHANGED mainVars
  /\ UNCHANGED readerVars
  /\ UNCHANGED << keyboardChan, tickerC, kbReads >>

\* IntervalElapses as it would be if the ticker queued every tick
IntervalElapsesQueueAll ==
  /\ tickerOn
  /\ elapsed < MaxTicks
  /\ elapsed' = elapsed + 1
  /\ tickerC' = tickerC + 1
  /\ dropped' = dropped
  /\ UNCHANGED << goos, utilAvail, stdinClosed, sigsSent >>
  /\ UNCHANGED mainVars
  /\ UNCHANGED readerVars
  /\ UNCHANGED << sigChan, keyboardChan, kbReads >>

\* One interval of the running ticker elapses: the tick is buffered in
\* ticker.C, or dropped when the previous tick is still there
IntervalElapses ==
  /\ tickerOn
  /\ elapsed < MaxTicks
  /\ elapsed' = elapsed + 1
  /\ IF tickerC < 1
     THEN /\ tickerC' = tickerC + 1
          /\ dropped' = dropped
     ELSE /\ tickerC' = tickerC
          /\ dropped' = dropped + 1
  /\ UNCHANGED << goos, utilAvail, stdinClosed, sigsSent >>
  /\ UNCHANGED mainVars
  /\ UNCHANGED readerVars
  /\ UNCHANGED << sigChan, keyboardChan, kbReads >>

\* The user types a line and presses Enter; the console is line-buffered
\* and the reader is its only consumer, so the model lets the next line
\* arrive once the reader has taken the previous one
TypeLine ==
  /\ ~stdinClosed
  /\ stdin = <<>>
  /\ \E l \in Lines :
       /\ stdin' = l \o << "\n" >>
       /\ curLine' = l
  /\ UNCHANGED << reader, lastRead, quitLine, kbWrites >>
  /\ UNCHANGED mainVars
  /\ UNCHANGED envVars
  /\ UNCHANGED << sigChan, keyboardChan, tickerC, kbReads >>

\* stdin reaches end of input, possibly after an unterminated last line
CloseStdin ==
  /\ ~stdinClosed
  /\ stdinClosed' = TRUE
  /\ \E f \in FinalLines :
       /\ f # <<>> => stdin = <<>>
       /\ stdin' = stdin \o f
       /\ curLine' = IF f # <<>> THEN f ELSE curLine
  /\ UNCHANGED << reader, lastRead, quitLine, kbWrites >>
  /\ UNCHANGED mainVars
  /\ UNCHANGED << goos, utilAvail, sigsSent, elapsed, dropped >>
  /\ UNCHANGED << sigChan, keyboardChan, tickerC, kbReads >>

\* cliclick is installed or removed between two invocations
ToggleUtil ==
  /\ goos = "darwin"
  /\ utilAvail' = ~utilAvail
  /\ UNCHANGED << goos, stdinClosed, sigsSent, elapsed, dropped >>
  /\ UNCHANGED mainVars
  /\ UNCHANGED readerVars
  /\ UNCHANGED << sigChan, keyboardChan, tickerC, kbReads >>

Next ==
  \/ PlatformCheck
  \/ NotifySignals
  \/ SpawnReader
  \/ NewTicker
  \/ SigCase
  \/ KeyboardCase
  \/ TickCase
  \/ RunReturns
  \/ ReaderScan
  \/ ReaderSend
  \/ SignalArrives
  \/ IntervalElapses
  \/ TypeLine
  \/ CloseStdin
  \/ ToggleUtil

Spec == Init /\ [][Next]_vars

TypeOK ==
  /\ sigChan \in 0..1 /\ keyboardChan \in 0..1 /\ tickerC \in 0..1
  /\ inFlight \in 0..1
  /\ started \in 0..MaxTicks

\* ------------------------------------------------------------ properties
LoopStep == pc' # pc

\* C1 (as stated): once a termination request is pending (a signal in
\* sigChan or a quit value in keyboardChan), no new strategy invocation
\* starts, also when a tick is ready at the same select.
C1_NoInvocationOncePending ==
  [][TerminationPending => started' = started]_vars

C1_RaceStep ==
  /\ (TerminationPending /\ started' # started)
       => (/\ pc = "wait"
           /\ tickerC > 0
           /\ tickerC' = tickerC - 1
           /\ started' = started + 1)
  /\ (TerminationPending /\ pc = "wait" /\ tickerC = 0 /\ LoopStep)
       => (/\ pc' = "stopped"
           /\ started' = started)

\* C1 (amended): while a termination request is pending, an invocation can
\* start only by the select taking a tick that was ready at that same wait
\* (the select picks among its ready cases at random); at a wait where a
\* termination request is pending and no tick is ready, the loop's next step
\* ends it without an invocation.
C1_PendingTerminationRace ==
  [][C1_RaceStep]_vars

\* a select with a termination request and a tick both ready took the tick
C1_Witness ==
  /\ raced
  /\ observed = "none"
  /\ started > 0
  /\ TerminationPending

\* C2 (as stated): while the loop runs, the invocations started (plus the
\* tick waiting to be taken) equal the intervals elapsed; no tick is dropped.
C2_OneInvocationPerInterval ==
  tickerOn => started + tickerC = elapsed

\* C2 (amended): while the loop runs, every elapsed interval is accounted
\* for exactly once: it started one invocation, or it is the one tick
\* pending in ticker.C, or it was dropped because a tick was already
\* pending.
C2_TickAccounting ==
  tickerOn =>
    /\ started + tickerC + dropped = elapsed
    /\ tickerC <= 1

\* an invocation outlasted two intervals: one tick is pending, one dropped
C2_Witness ==
  /\ pc = "running"
  /\ started = 1
  /\ tickerC = 1
  /\ dropped = 1
  /\ elapsed = 3

C3_FailureStep ==
  failures' > failures
    => (/\ pc' = "wait"
        /\ exitStatus' = "none"
        /\ observed' = observed
        /\ inFlight' = 0)

\* C3: a failed strategy invocation leaves the loop running at its event
\* wait with no exit status, and a tick that is ready there starts the
\* strategy again.
C3_FailureNeverStopsLoop ==
  /\ [][C3_FailureStep]_vars
  /\ [](( /\ failures > 0
          /\ Running
          /\ pc = "wait"
          /\ tickerC > 0) => ENABLED TickCase)

\* a new invocation is in flight after earlier ones failed
C3_Witness ==
  /\ failures >= 2
  /\ pc = "running"

\* C4: on a supported platform the startup check passes and startup goes on
\* without blocking; on any other platform the check exits with status 1
\* and nothing of the loop's setup ever happens.
C4_PlatformGate ==
  /\ goos \notin Supported
       => /\ ~notified
          /\ reader = "unborn"
          /\ ~tickerOn
          /\ started = 0
          /\ elapsed = 0
          /\ pc \in {"start", "exited"}
          /\ (pc = "exited" <=> exitStatus = "1")
  /\ goos \in Supported
       => /\ exitStatus # "1"
          /\ pc # "exited"
          /\ pc \in {"start", "notify", "spawn", "ticker"}
               => ENABLED (PlatformCheck \/ NotifySignals \/ SpawnReader
                           \/ NewTicker)

\* an unsupported platform was rejected while input was already waiting
C4_Witness ==
  /\ goos \notin Supported
  /\ exitStatus = "1"
  /\ curLine # NoLine

C5_AfterStopStep ==
  observed # "none"
    => (/\ pc = "stopped"
        /\ UNCHANGED << pc, exitStatus, started, inFlight, successes,
                        failures, observed, kbReads, kbWrites, reader, cmd >>
        /\ Len(stdin') >= Len(stdin))

\* C5: once the loop has taken the signal case or the quit case it is
\* stopped, and no step of the program happens afterwards.
C5_StoppedIsTerminal ==
  [][C5_AfterStopStep]_vars

\* the loop is stopped with a tick, a signal and an input line all waiting
C5_Witness ==
  /\ observed = "keyboard"
  /\ pc = "stopped"
  /\ tickerC > 0
  /\ sigChan > 0
  /\ curLine # NoLine

\* C6: at most one helper process is in flight, and only while the loop is
\* inside the invocation, never while it waits for events.
C6_NoOverlap ==
  /\ inFlight <= 1
  /\ pc # "running" => inFlight = 0
  /\ pc = "running" => inFlight = 1

\* the next tick is ready while an invocation is still in flight
C6_Witness ==
  /\ pc = "running"
  /\ inFlight = 1
  /\ tickerC > 0
  /\ started >= 2

\* C7 (as stated): the reader signals termination only on a typed line that
\* is exactly "q", "quit" or "exit".
C7_ExactLineMatch ==
  quitLine # NoLine => quitLine \in {LineQ, LineQuit, LineExit}

C8_AfterMatchStep ==
  reader \in {"sending", "done"}
    => (/\ reader' \in {"sending", "done"}
        /\ Len(stdin') >= Len(stdin)
        /\ curLine' = curLine \/ curLine = NoLine
        /\ lastRead' = lastRead)

\* C8: the reader writes keyboardChan at most once, the loop reads it at
\* most once, and once the reader has matched a quit token it never reads
\* stdin again.
C8_SignalsOnce ==
  /\ [](/\ kbWrites <= 1
        /\ kbReads <= kbWrites
        /\ reader = "done" => kbWrites = 1
        /\ reader \in {"unborn", "reading", "sending"} => kbWrites = 0)
  /\ [][C8_AfterMatchStep]_vars

\* a line typed after the quit token stays unread while the program runs
C8_Witness ==
  /\ reader = "done"
  /\ Running
  /\ pc = "running"
  /\ curLine # NoLine

\* C9: a termination observed by the loop gives exit status 0 whatever
\* failed before; status 1 comes only from the startup check on an
\* unsupported platform.
C9_ExitStatus ==
  /\ observed # "none" => exitStatus = "0"
  /\ exitStatus = "0" => observed # "none"
  /\ exitStatus = "1"
       => /\ goos \notin Supported
          /\ observed = "none"
          /\ started = 0

\* a graceful termination after failed invocations
C9_Witness ==
  /\ exitStatus = "0"
  /\ failures >= 2

\* C10: after a failed read (empty line, malformed line, end of input) the
\* reader is still reading, nothing was written to keyboardChan, and the
\* loop can still take a ready tick.
C10_BadReadKeepsReading ==
  lastRead \notin {"none", "nil"}
    => /\ reader = "reading"
       /\ keyboardChan = 0
       /\ kbWrites = 0
       /\ observed # "keyboard"
       /\ (Running /\ stdin # <<>>) => ENABLED ReaderScan
       /\ (Running /\ pc = "wait" /\ tickerC > 0) => ENABLED TickCase

\* the reader hit end of input and the loop went on to the next invocations
C10_Witness ==
  /\ lastRead = "EOF"
  /\ stdinClosed
  /\ started >= 2
  /\ pc = "running"

\* C11 (as stated): every failure report, on both supported platforms,
\* carries a remediation hint.
C11_HintOnEveryFailure ==
  hints = failures

\* C11 (amended): every failure report is a warning line; the remediation
\* hint (the troubleshooting line) follows it on darwin only, on windows no
\* hint is printed.
C11_HintOnlyOnDarwin ==
  /\ goos = "darwin" => hints = failures
  /\ goos # "darwin" => hints = 0

\* failures on windows were reported without any hint
C11_Witness ==
  /\ goos = "windows"
  /\ failures >= 2
  /\ hints = 0

C12_ChoiceStep ==
  (started' # started /\ goos = "darwin")
    => cmd' = (IF utilAvail THEN "cliclick" ELSE "osascript")

\* C12: on darwin every invocation chooses its command from the utility's
\* availability at that invocation alone, whatever earlier invocations
\* chose or returned.
C12_RecheckEveryTick ==
  [][C12_ChoiceStep]_vars

\* the utility appeared between two ticks and the next invocation used it
C12_Witness ==
  /\ prevCmd = "osascript"
  /\ cmd = "cliclick"
  /\ failures >= 1

C13_NoRetryStep ==
  /\ inFlight' <= inFlight + 1
  /\ inFlight' > inFlight => started' = started + 1
  /\ pc = "running" => (cmd' = cmd /\ started' = started)
  /\ failures' # failures
       => (/\ failures' = failures + 1
           /\ inFlight' = 0
           /\ pc' = "wait")

\* C13: a helper is launched only by a new invocation, at most one per
\* invocation; the command of a running invocation never changes, and a
\* failure is reported once and ends the invocation.
C13_NoRetryWithinTick ==
  [][C13_NoRetryStep]_vars

\* the single invocation found cliclick, failed, and was reported once
C13_Witness ==
  /\ started = 1
  /\ cmd = "cliclick"
  /\ failures = 1
  /\ successes = 0
  /\ pc = "wait"

C14_DuringInvocationStep ==
  /\ pc = "running"
       => (/\ pc' \in {"running", "wait"}
           /\ exitStatus' = "none"
           /\ observed' = observed
           /\ sigChan' >= sigChan
           /\ keyboardChan' >= keyboardChan
           /\ pc' = "wait"
                => successes' + failures' = successes + failures + 1)
  /\ observed' # observed => pc = "wait"

\* C14: while an invocation is in flight the loop does not stop, pending
\* termination requests stay pending, the invocation ends with its report,
\* and a termination is observed only from the event wait.
C14_NoPreemption ==
  [][C14_DuringInvocationStep]_vars

\* a signal arrived after the select had started the running invocation
C14_Witness ==
  /\ pc = "running"
  /\ ~raced
  /\ sigChan > 0

C16_FailureReportStep ==
  failures' # failures
    => (/\ failures' = failures + 1
        /\ hints' - hints = (IF goos = "darwin" THEN 1 ELSE 0)
        /\ successes' = successes
        /\ pc' = "wait"
        /\ UNCHANGED << goos, utilAvail, exitStatus, notified, tickerOn,
                        observed >>)

\* C16: every failure report has the same shape whatever the number of
\* earlier failures, a failure changes nothing that a later invocation
\* depends on, and N invocations that all fail leave exactly N failure
\* reports with the tick case still enabled for the next tick.
C16_FailuresIndependent ==
  /\ [][C16_FailureReportStep]_vars
  /\ []((successes = 0 /\ pc = "wait") => failures = started)
  /\ []((failures > 0 /\ successes = 0 /\ Running /\ pc = "wait"
         /\ tickerC > 0) => ENABLED TickCase)

\* three invocations in a row failed and left three failure reports
C16_Witness ==
  /\ started = 3
  /\ failures = 3
  /\ successes = 0
  /\ pc = "wait"

C17_ReportStep ==
  /\ (successes' + failures') - (successes + failures) \in {0, 1}
  /\ successes' # successes => (failures' = failures /\ hints' = hints)
  /\ (failures' # failures /\ goos = "darwin") => hints' = hints + 1

\* C17: every invocation that has ended left exactly one report, a success
\* line or a failure report, never both; the report's shape does not depend
\* on whether the utility or the fallback was run.
C17_OneReportPerTick ==
  /\ [](started = successes + failures + inFlight)
  /\ [][C17_ReportStep]_vars

\* the fallback ran after the utility, with a success and a failure so far
C17_Witness ==
  /\ prevCmd = "cliclick"
  /\ cmd = "osascript"
  /\ successes >= 1
  /\ failures >= 1
  /\ pc = "wait"

\* C18: the platform identifier never changes and no invocation ever runs
\* on an unsupported one, so every invocation builds a command; the
\* strategy's default branch itself builds no command, so nothing is run.
C18_UnsupportedBranchUnreached ==
  /\ [][goos' = goos]_vars
  /\ [](/\ started > 0 => (goos \in Supported /\ cmd # "none")
        /\ pc \in {"wait", "running", "stopped"} => goos \in Supported
        /\ inFlight > 0 => cmd # "none"
        /\ \A os \in Goos \ Supported : \A avail \in BOOLEAN :
             ChooseCmd(os, avail) = "none")

\* the loop has run all its invocations on a supported platform
C18_Witness ==
  /\ goos = "windows"
  /\ started = 3
  /\ cmd = "powershell"
  /\ pc = "wait"

\* C19: whenever the reader is at its send the channel has room, so the
\* send can complete at once, also while the loop is inside an invocation.
C19_SendNeverBlocks ==
  /\ reader = "sending" => (keyboardChan = 0 /\ kbWrites = 0)
  /\ (reader = "sending" /\ Running) => ENABLED ReaderSend

\* the reader finished its hand-off while the loop was inside an invocation
C19_Witness ==
  /\ reader = "done"
  /\ keyboardChan = 1
  /\ pc = "running"
  /\ ~raced

\* C20: ticker.C never holds more than one tick, and the invocations
\* started plus the pending tick never exceed the intervals elapsed.
C20_SingleSlotTicker ==
  /\ tickerC <= 1
  /\ started + tickerC <= elapsed

\* three intervals produced two invocations: one tick was coalesced
C20_Witness ==
  /\ pc = "wait"
  /\ tickerC = 0
  /\ elapsed = 3
  /\ started = 2
  /\ dropped = 1
  /\ successes + failures = 2

\* ------------------------------------------------------------- fairness
\* The main goroutine keeps running its startup; every helper that was
\* launched exits (the hypothesis "every invocation completes"); the select
\* picks among its ready cases at random, so a termination case that is
\* ready again and again is eventually taken.
Fairness ==
  /\ WF_vars(NotifySignals \/ SpawnReader \/ NewTicker)
  /\ WF_vars(RunReturns)
  /\ SF_vars(SigCase)
  /\ SF_vars(KeyboardCase)

\* The console lines of the fair runs: one quit token and one other line
LiveLines == { LineQ, <<"Q">> }

LiveTypeLine == TypeLine /\ curLine' \in LiveLines

\* The program's actions with the environment narrowed to what termination
\* depends on: signals, ticks, and console lines that are a quit token or
\* not
LiveNext ==
  \/ PlatformCheck
  \/ NotifySignals
  \/ SpawnReader
  \/ NewTicker
  \/ SigCase
  \/ KeyboardCase
  \/ TickCase
  \/ RunReturns
  \/ ReaderScan
  \/ ReaderSend
  \/ SignalArrives
  \/ IntervalElapses
  \/ LiveTypeLine
  \/ CloseStdin
  \/ ToggleUtil

FairSpec == Init /\ [][LiveNext]_vars /\ Fairness

\* C15: when every invocation completes, a termination request buffered in
\* sigChan or keyboardChan leads to the stopped loop; while an invocation
\* has not returned, neither termination case can be taken.
C15_TerminationEventuallyObserved ==
  /\ TerminationPending ~> pc = "stopped"
  /\ [](pc = "running" => ~ENABLED (SigCase \/ KeyboardCase \/ TickCase))

\* the loop stopped on a signal, with a quit value pending too, after all
\* its invocations had completed
C15_Witness ==
  /\ pc = "stopped"
  /\ observed = "signal"
  /\ successes + failures = 3
  /\ keyboardChan = 1

\* ------------------------------------------------------------- C21
\* C21: no strategy invocation happens at startup. Until one full interval
\* has elapsed since the ticker was created, the tick channel is empty and
\* no invocation has started, finished or been reported; so a termination
\* observed before the first tick ends the program with zero invocations
\* and exit status 0.
C21_NoInvocationAtStartup ==
  /\ elapsed = 0
       => /\ started = 0
          /\ tickerC = 0
          /\ inFlight = 0
          /\ successes + failures = 0
          /\ pc # "running"
  /\ (observed # "none" /\ elapsed = 0)
       => (started = 0 /\ exitStatus = "0" /\ pc = "stopped")

\* A termination request observed before the first tick: the program has
\* stopped with zero invocations.
C21_Witness ==
  /\ pc = "stopped"
  /\ observed # "none"
  /\ elapsed = 0
  /\ started = 0

====
